---- MODULE Spec2Model ----
(***************************************************************************)
(* Model of spacex_dash_app.py: the start-up script (CSV load, payload     *)
(* bounds, layout) and the two Dash callbacks get_pie_chart and            *)
(* get_scatter_chart, driven by the site dropdown and the payload slider.  *)
(***************************************************************************)
EXTENDS Integers, Sequences, FiniteSets, TLC

\* ----------------------------------------------------------------- state
VARIABLES
    pc,                 \* "start", "loaded", "bounds", "layout", "serving", "crashed"
    csv_found,          \* whether pd.read_csv found the file
    spacex_df,          \* the module-level DataFrame
    loaded_df,          \* the DataFrame as it was when start-up loaded it
    min_payload,
    max_payload,
    site_dropdown,      \* value of the 'site-dropdown' component
    payload_slider,     \* value of the 'payload-slider' component
    success_pie_chart,              \* figure of 'success-pie-chart'
    success_payload_scatter_chart   \* figure of 'success-payload-scatter-chart'

vars == <<pc, csv_found, spacex_df, loaded_df, min_payload, max_payload,
          site_dropdown, payload_slider, success_pie_chart,
          success_payload_scatter_chart>>

\* ---------------------------------------------------------------- bounds
MaxRows == 2        \* longest CSV file explored (rows)
MaxPayload == 1     \* payload masses and slider bounds range over 0..MaxPayload

\* ------------------------------------------------------- program constants
SliderFallbackLow == 0
SliderFallbackHigh == 10000

PayloadCol == "Payload Mass (kg)"
SiteCol == "Launch Site"
ClassCol == "class"
BoosterCol == "Booster Version Category"
AllColumns == {PayloadCol, SiteCol, ClassCol, BoosterCol}

ALL == "ALL"
SiteNames == {"A", "B"}
Boosters == {"v1"}
Classes == {0, 1}
Payloads == 0..MaxPayload

\* --------------------------------------------------------- python values
\* A value crossing the host/callback boundary (decoded JSON) or produced by
\* pandas, tagged with its Python type: a number, True, float NaN, None.
Num(n) == [t |-> "int", v |-> n]
True == [t |-> "bool", v |-> 1]
NaN == [t |-> "float_nan", v |-> 0]
None == [t |-> "NoneType", v |-> 0]

\* isinstance(x, (int, float)): bool is a subclass of int, NaN is a float.
IsNumberAlways(x) == TRUE
IsNumber(x) == x.t \in {"int", "bool", "float_nan"}

\* pd.notna(x)
NotNaNever(x) == TRUE
NotNa(x) == x.t # "float_nan"

\* ------------------------------------------------------------ dataframes
RECURSIVE SeqsUpTo(_, _)
SeqsUpTo(S, n) == IF n = 0 THEN {<<>>}
                  ELSE SeqsUpTo(S, n - 1) \cup [1..n -> S]

FullRows == [payload : Payloads, site : SiteNames, class : Classes, booster : Boosters]
NoPayloadRows == [site : SiteNames, class : Classes, booster : Boosters]

\* What pd.read_csv can return: any table with the four columns, or a table
\* whose payload column is absent.
CsvFiles ==
    {[columns |-> AllColumns, rows |-> r] : r \in SeqsUpTo(FullRows, MaxRows)}
    \cup {[columns |-> AllColumns \ {PayloadCol}, rows |-> r] :
              r \in SeqsUpTo(NoPayloadRows, 1)}

\* The DataFrame built in the except branch.
PlaceholderDfNoPayload ==
    [columns |-> AllColumns \ {PayloadCol},
     rows |-> <<[site |-> "Default", class |-> 0, booster |-> "Default"]>>]
PlaceholderDf ==
    [columns |-> AllColumns,
     rows |-> <<[payload |-> 0, site |-> "Default", class |-> 0,
                 booster |-> "Default"]>>]

\* Series.max() / Series.min() of the payload column; NaN on an empty column.
PayloadSet(df) == {df.rows[i].payload : i \in 1..Len(df.rows)}
SeriesMax(df) ==
    IF df.rows = <<>> THEN NaN
    ELSE Num(CHOOSE m \in PayloadSet(df) : \A p \in PayloadSet(df) : p <= m)
SeriesMin(df) ==
    IF df.rows = <<>> THEN NaN
    ELSE Num(CHOOSE m \in PayloadSet(df) : \A p \in PayloadSet(df) : m <= p)

\* value=[min_payload if pd.notna(min_payload) else 0,
\*        max_payload if pd.notna(max_payload) else 10000]
SliderInitialValue(lo, hi) ==
    <<IF NotNa(lo) THEN lo ELSE Num(SliderFallbackLow),
      IF NotNa(hi) THEN hi ELSE Num(SliderFallbackHigh)>>

\* ------------------------------------------------------------- callbacks
\* df[df[col] == value] style boolean indexing keeps the matching rows in order.
RowsAnyClass(rows, c) == rows
RowsWhereClass(rows, c) == LET Test(r) == r.class = c IN SelectSeq(rows, Test)
SiteFilterNone(rows, entered_site) == rows
SiteFilter(rows, entered_site) ==
    LET Test(r) == r.site = entered_site IN SelectSeq(rows, Test)

\* spacex_df[(payload >= low) & (payload <= high)]
\* Every comparison with NaN is False; True compares as 1.
PayloadFilterStrict(rows, low, high) ==
    LET Test(r) == /\ low.t # "float_nan" /\ r.payload > low.v
                   /\ high.t # "float_nan" /\ r.payload < high.v
    IN SelectSeq(rows, Test)
PayloadFilter(rows, low, high) ==
    LET Test(r) == /\ low.t # "float_nan" /\ r.payload >= low.v
                   /\ high.t # "float_nan" /\ r.payload <= high.v
    IN SelectSeq(rows, Test)

\* A pandas comparison of a numeric column with None raises TypeError.
Comparable(x) == x.t # "NoneType"

\* value_counts(): label -> number of occurrences, labels that occur only.
ValueCounts(labels) ==
    [l \in {labels[i] : i \in 1..Len(labels)} |->
        Cardinality({i \in 1..Len(labels) : labels[i] = l})]

\* Series.map({1: 'Success', 0: 'Failure'}); unmapped values become NaN.
StatusOfSuccessOnly(c) == IF c = 1 THEN "Success" ELSE "NaN"
StatusOf(c) == IF c = 1 THEN "Success" ELSE IF c = 0 THEN "Failure" ELSE "NaN"
DropNa(labels) == LET Test(l) == l # "NaN" IN SelectSeq(labels, Test)

PieFigure(title, slices) == [exception |-> "", title |-> title, slices |-> slices]
ScatterFigure(title, rows, x, y, color) ==
    [exception |-> "", title |-> title, data |-> rows, x |-> x, y |-> y,
     color |-> color]
Raised(exc) ==
    [exception |-> exc, title |-> "", data |-> <<>>, x |-> "", y |-> "", color |-> ""]
NoPie == PieFigure("", <<>>)
NoScatter == ScatterFigure("", <<>>, "", "", "")

get_pie_chart_in_range(entered_site, df) ==
    LET low == payload_slider[1]
        high == payload_slider[2]
        filtered_df == IF IsNumber(low) /\ IsNumber(high)
                       THEN PayloadFilter(df.rows, low, high) ELSE df.rows
    IN
    IF entered_site = ALL
    THEN LET successful_launches_df == RowsWhereClass(filtered_df, 1)
             names == [i \in 1..Len(successful_launches_df) |->
                          successful_launches_df[i].site]
         IN PieFigure("Total Successful Launches by Site", ValueCounts(names))
    ELSE LET site_filtered_df == SiteFilter(filtered_df, entered_site)
             status == [i \in 1..Len(site_filtered_df) |->
                           StatusOf(site_filtered_df[i].class)]
             status_counts == ValueCounts(DropNa(status))
         IN PieFigure("Successful vs. Failed Launches for site " \o entered_site,
                      status_counts)
get_pie_chart(entered_site, df) ==
    LET filtered_df == df.rows IN
    IF entered_site = ALL
    THEN LET successful_launches_df == RowsWhereClass(filtered_df, 1)
             names == [i \in 1..Len(successful_launches_df) |->
                          successful_launches_df[i].site]
         IN PieFigure("Total Successful Launches by Site", ValueCounts(names))
    ELSE LET site_filtered_df == SiteFilter(filtered_df, entered_site)
             status == [i \in 1..Len(site_filtered_df) |->
                           StatusOf(site_filtered_df[i].class)]
             status_counts == ValueCounts(DropNa(status))
         IN PieFigure("Successful vs. Failed Launches for site " \o entered_site,
                      status_counts)

get_scatter_chart(entered_site, payload_range, df) ==
    LET low == payload_range[1]
        high == payload_range[2]
    IN
    IF PayloadCol \notin df.columns
    THEN ScatterFigure("Payload Mass (kg) column missing", <<>>, "", "", "")
    ELSE IF IsNumber(low) /\ IsNumber(high) /\ ~(Comparable(low) /\ Comparable(high))
    THEN Raised("TypeError")
    ELSE LET current_filtered_df ==
                 IF ~(IsNumber(low) /\ IsNumber(high)) THEN df.rows
                 ELSE PayloadFilter(df.rows, low, high)
         IN
         IF entered_site = ALL
         THEN ScatterFigure("Payload vs. Launch Outcome for All Sites",
                            current_filtered_df, PayloadCol, ClassCol, BoosterCol)
         ELSE LET site_filtered_df == SiteFilter(current_filtered_df, entered_site)
              IN ScatterFigure("Payload vs. Launch Outcome for site " \o entered_site,
                               site_filtered_df, PayloadCol, ClassCol, BoosterCol)

\* Neither callback assigns to the module-level spacex_df: every filter result
\* is bound to a local name.
DatasetAfterCallbackOverwritten(df, fig) == [df EXCEPT !.rows = fig.data]
DatasetAfterCallback(df, fig) == df

\* --------------------------------------------------------------- start-up
EmptyDf == [columns |-> {}, rows |-> <<>>]

Init ==
    /\ pc = "start"
    /\ csv_found = FALSE
    /\ spacex_df = EmptyDf
    /\ loaded_df = EmptyDf
    /\ min_payload = None
    /\ max_payload = None
    /\ site_dropdown = ALL
    /\ payload_slider = <<None, None>>
    /\ success_pie_chart = NoPie
    /\ success_payload_scatter_chart = NoScatter

\* try: spacex_df = pd.read_csv("spacex_launch_dash.csv")
ReadCsv ==
    /\ pc = "start"
    /\ \E df \in CsvFiles :
          /\ spacex_df' = df
          /\ loaded_df' = df
    /\ csv_found' = TRUE
    /\ pc' = "loaded"
    /\ UNCHANGED <<min_payload, max_payload, site_dropdown, payload_slider,
                   success_pie_chart, success_payload_scatter_chart>>

\* except FileNotFoundError: print(...); spacex_df = pd.DataFrame({...})
FileNotFound ==
    /\ pc = "start"
    /\ spacex_df' = PlaceholderDf
    /\ loaded_df' = PlaceholderDf
    /\ csv_found' = FALSE
    /\ pc' = "loaded"
    /\ UNCHANGED <<min_payload, max_payload, site_dropdown, payload_slider,
                   success_pie_chart, success_payload_scatter_chart>>

\* max_payload = spacex_df['Payload Mass (kg)'].max(); min_payload = ....min()
ComputePayloadBounds ==
    /\ pc = "loaded"
    /\ PayloadCol \in spacex_df.columns
    /\ max_payload' = SeriesMax(spacex_df)
    /\ min_payload' = SeriesMin(spacex_df)
    /\ pc' = "bounds"
    /\ UNCHANGED <<csv_found, spacex_df, loaded_df, site_dropdown, payload_slider,
                   success_pie_chart, success_payload_scatter_chart>>

\* The same two statements on a frame without the column: KeyError at module
\* level, the script stops before the app exists.
PayloadBoundsKeyError ==
    /\ pc = "loaded"
    /\ PayloadCol \notin spacex_df.columns
    /\ pc' = "crashed"
    /\ UNCHANGED <<csv_found, spacex_df, loaded_df, min_payload, max_payload,
                   site_dropdown, payload_slider, success_pie_chart,
                   success_payload_scatter_chart>>

\* app.layout = html.Div(...): the dropdown starts at 'ALL', the slider at the
\* payload bounds with their fallbacks.
BuildLayout ==
    /\ pc = "bounds"
    /\ site_dropdown' = ALL
    /\ payload_slider' = SliderInitialValue(min_payload, max_payload)
    /\ pc' = "layout"
    /\ UNCHANGED <<csv_found, spacex_df, loaded_df, min_payload, max_payload,
                   success_pie_chart, success_payload_scatter_chart>>

\* One invocation of the pie callback by the host: the figure it returns
\* replaces the pie chart. The module-level frame is what the call leaves.
PieCallback(site, df) ==
    LET fig == get_pie_chart(site, df) IN
    [figure |-> fig, df |-> df]

\* One invocation of the scatter callback by the host.
ScatterCallback(site, range, df) ==
    LET fig == get_scatter_chart(site, range, df) IN
    [figure |-> fig, df |-> DatasetAfterCallback(df, fig)]

\* The host invokes the callbacks whose Inputs changed, one after the other
\* (pie first, then scatter on the frame the pie call left).
Dispatch(site, range, runPie) ==
    LET pie == PieCallback(site, spacex_df)
        df1 == IF runPie THEN pie.df ELSE spacex_df
        scatter == ScatterCallback(site, range, df1)
    IN /\ success_pie_chart' = IF runPie THEN pie.figure ELSE success_pie_chart
       /\ success_payload_scatter_chart' = scatter.figure
       /\ spacex_df' = scatter.df

\* app.run(): the page is served and the host invokes every callback once
\* with the layout's initial values.
FirstRender ==
    /\ pc = "layout"
    /\ Dispatch(site_dropdown, payload_slider, TRUE)
    /\ pc' = "serving"
    /\ UNCHANGED <<csv_found, loaded_df, min_payload, max_payload,
                   site_dropdown, payload_slider>>

\* Values the host can hand to the callbacks.
SiteValues == {ALL} \cup SiteNames
SliderValues == {Num(n) : n \in Payloads} \cup {True, NaN, None}

\* Input('site-dropdown', 'value') is declared by both callbacks.
SelectSite ==
    /\ pc = "serving"
    /\ \E s \in SiteValues :
          /\ site_dropdown' = s
          /\ Dispatch(s, payload_slider, TRUE)
    /\ UNCHANGED <<pc, csv_found, loaded_df, min_payload, max_payload,
                   payload_slider>>

\* Input('payload-slider', 'value') is declared by the scatter callback only.
MoveSlider ==
    /\ pc = "serving"
    /\ \E lo \in SliderValues, hi \in SliderValues :
          /\ payload_slider' = <<lo, hi>>
          /\ Dispatch(site_dropdown, <<lo, hi>>, FALSE)
    /\ UNCHANGED <<pc, csv_found, loaded_df, min_payload, max_payload,
                   site_dropdown>>

\* A repeated request for one callback with the current selection (a second
\* tab, a retried request): the callbacks run in any order, any number of times.
InvokePie ==
    /\ pc = "serving"
    /\ LET r == PieCallback(site_dropdown, spacex_df) IN
          /\ success_pie_chart' = r.figure
          /\ spacex_df' = r.df
    /\ UNCHANGED <<pc, csv_found, loaded_df, min_payload, max_payload,
                   site_dropdown, payload_slider, success_payload_scatter_chart>>

InvokeScatter ==
    /\ pc = "serving"
    /\ LET r == ScatterCallback(site_dropdown, payload_slider, spacex_df) IN
          /\ success_payload_scatter_chart' = r.figure
          /\ spacex_df' = r.df
    /\ UNCHANGED <<pc, csv_found, loaded_df, min_payload, max_payload,
                   site_dropdown, payload_slider, success_pie_chart>>

Next ==
    \/ ReadCsv
    \/ FileNotFound
    \/ ComputePayloadBounds
    \/ PayloadBoundsKeyError
    \/ BuildLayout
    \/ FirstRender
    \/ SelectSite
    \/ MoveSlider
    \/ InvokePie
    \/ InvokeScatter

Spec == Init /\ [][Next]_vars

\* ================================================================ claims
Rows == loaded_df.rows
Low == payload_slider[1]
High == payload_slider[2]
NumericInterval == Low.t = "int" /\ High.t = "int"
NotANumber(x) == x.t = "NoneType"
InInterval(r) == Low.v <= r.payload /\ r.payload <= High.v
AtSite(r) == r.site = site_dropdown
Successful(r) == r.class = 1
Count(rows, Test(_)) == Cardinality({i \in 1..Len(rows) : Test(rows[i])})
RECURSIVE SumOf(_, _)
SumOf(f, S) == IF S = {} THEN 0
               ELSE LET l == CHOOSE x \in S : TRUE IN f[l] + SumOf(f, S \ {l})
SliceSum(fig) == SumOf(fig.slices, DOMAIN fig.slices)

\* C1: with site 'ALL' and a numeric interval lo <= hi the scatter chart plots
\* exactly the rows with lo <= payload <= hi, both bounds inclusive.
C1_ScatterAllPlotsInclusiveInterval ==
    (pc = "serving" /\ site_dropdown = ALL /\ NumericInterval /\ Low.v <= High.v)
    => /\ success_payload_scatter_chart.exception = ""
       /\ success_payload_scatter_chart.data = SelectSeq(Rows, InInterval)
C1_Witness ==
    /\ pc = "serving" /\ site_dropdown = ALL /\ NumericInterval /\ Low.v <= High.v
    /\ \E i \in 1..Len(Rows) : Rows[i].payload = Low.v /\ Rows[i].payload = High.v
    /\ \E i \in 1..Len(Rows) : ~InInterval(Rows[i])
    /\ Len(success_payload_scatter_chart.data) = 1

\* C2: for a site S other than 'ALL' the scatter points are exactly the points
\* of the 'ALL' chart for the same interval whose launch site is S.
C2_ScatterSiteIsAllRestrictedToSite ==
    (pc = "serving" /\ site_dropdown # ALL)
    => LET allChart == get_scatter_chart(ALL, payload_slider, loaded_df) IN
       /\ success_payload_scatter_chart.exception = ""
       /\ allChart.exception = ""
       /\ success_payload_scatter_chart.data = SelectSeq(allChart.data, AtSite)
C2_Witness ==
    /\ pc = "serving" /\ site_dropdown # ALL /\ NumericInterval
    /\ Len(success_payload_scatter_chart.data) = 1
    /\ \E i \in 1..Len(Rows) : InInterval(Rows[i]) /\ ~AtSite(Rows[i])

\* C3: the 'ALL' pie chart has one slice per site with a successful launch,
\* sized by that site's successful launches; the slices sum to the number of
\* rows with class = 1 and failed launches add to no slice.
C3_PieAllCountsSuccessesOnly ==
    (pc = "serving" /\ site_dropdown = ALL)
    => LET sl == success_pie_chart.slices
           sites == {Rows[i].site : i \in {j \in 1..Len(Rows) : Successful(Rows[j])}}
       IN /\ DOMAIN sl \subseteq sites
          /\ Cardinality(DOMAIN sl) <= Cardinality(sites)
          /\ \A s \in DOMAIN sl :
                sl[s] = Cardinality({i \in 1..Len(Rows) :
                                        Rows[i].site = s /\ Successful(Rows[i])})
          /\ SliceSum(success_pie_chart) = Count(Rows, Successful)
C3_Witness ==
    /\ pc = "serving" /\ site_dropdown = ALL
    /\ \E i \in 1..Len(Rows) : ~Successful(Rows[i])
    /\ SliceSum(success_pie_chart) = 1

\* C4: the pie chart of a site S has labels among Success and Failure, only
\* for categories that occur, and its slices sum to the number of rows of S;
\* a site without rows gives a chart without slices and no error.
C4_PieSiteSuccessFailure ==
    (pc = "serving" /\ site_dropdown # ALL)
    => LET sl == success_pie_chart.slices IN
       /\ success_pie_chart.exception = ""
       /\ DOMAIN sl \subseteq {"Success", "Failure"}
       /\ \A l \in DOMAIN sl : sl[l] > 0
       /\ SliceSum(success_pie_chart) = Count(Rows, AtSite)
       /\ (Count(Rows, AtSite) = 0 => DOMAIN sl = {})
C4_Witness ==
    /\ pc = "serving" /\ site_dropdown # ALL
    /\ DOMAIN success_pie_chart.slices = {"Success", "Failure"}
    /\ SliceSum(success_pie_chart) = 2

\* C5: when the CSV file is missing the load yields the one-row placeholder
\* (payload 0, site Default, class 0, booster Default) with the four columns,
\* and start-up goes on without raising.
C5_MissingFileGivesPlaceholder ==
    (pc # "start" /\ ~csv_found)
    => /\ spacex_df.columns = {"Payload Mass (kg)", "Launch Site", "class",
                               "Booster Version Category"}
       /\ Len(spacex_df.rows) = 1
       /\ spacex_df.rows[1] = [payload |-> 0, site |-> "Default", class |-> 0,
                               booster |-> "Default"]
       /\ pc # "crashed"
C5_Witness == pc = "layout" /\ ~csv_found

\* C6: a loaded dataset without the payload-mass column is recovered from:
\* the process does not stop, it goes on to serve the labelled empty chart.
C6_MissingColumnIsRecovered ==
    (pc # "start" /\ "Payload Mass (kg)" \notin spacex_df.columns) => pc # "crashed"

C8_InitialSelection ==
    pc = "layout"
    => /\ site_dropdown = ALL
       /\ NumericInterval
       /\ Low.v <= High.v
       /\ Rows = <<>> => (Low.v = 0 /\ High.v = 10000)
       /\ Rows # <<>> =>
             /\ \A i \in 1..Len(Rows) : InInterval(Rows[i])
             /\ \E i \in 1..Len(Rows) : Rows[i].payload = Low.v
             /\ \E i \in 1..Len(Rows) : Rows[i].payload = High.v
C8_Witness ==
    pc = "layout" /\ Rows = <<>> /\ Low = Num(0) /\ High = Num(10000)

\* C9: after start-up's load the shared dataset is never written: whatever
\* callbacks ran, with whatever inputs, it equals the dataset as loaded.
C9_DatasetNeverMutated == pc # "start" => spacex_df = loaded_df
C9_Witness ==
    /\ pc = "serving" /\ spacex_df = loaded_df
    /\ NotANumber(Low)
    /\ Len(Rows) = 2 /\ Len(success_payload_scatter_chart.data) = 0

====
